---- MODULE Spec2Model ----
(***************************************************************************)
(* A model of asciimatics' terminal-stream players                         *)
(* (asciimatics/renderers/players.py): the Screen Player command           *)
(* dispatcher (AbstractScreenPlayer._play_content) and its two pacing      *)
(* drivers (AnsiArtPlayer, AsciinemaPlayer).                               *)
(*                                                                         *)
(* Text is a sequence of one-character strings.  The parser is taken as a  *)
(* tokenizer: a raw text is modelled by the sequence of commands it parses *)
(* to, with the marker NL standing for each "\n" of the raw text.          *)
(* Time is counted in hundredths of a second, so that the 0.05 s quantum   *)
(* of the asciinema clock is the integer 5.                                *)
(***************************************************************************)
EXTENDS Integers, Sequences, FiniteSets, TLC

VARIABLES
    self,       \* the player object: its fields, its canvas, and the log of canvas writes
    file,       \* the byte source self._file: content, position, open/closed, close() calls
    cfg,        \* constructor arguments: kind of player, strip, rate, max_delay
    pc,         \* "new": not constructed yet, "ready": constructed, "failed": constructor raised
    out,        \* what the player has produced: frames returned, source lines fed to _play_content
    last,       \* the operation (command, newline, tick, ...) the last step executed
    prev,       \* the operation executed before that one
    steps       \* number of operations executed so far (bounds the exploration)

vars == <<self, file, cfg, pc, out, last, prev, steps>>

(***************************************************************************)
(* Bounds of the exploration.                                              *)
(***************************************************************************)
Width == 3
Height == 2
MaxSteps == 3
MaxMove == 1

(***************************************************************************)
(* Small helpers.                                                          *)
(***************************************************************************)
Min(a, b) == IF a < b THEN a ELSE b
Max(a, b) == IF a > b THEN a ELSE b

\* Python's optional values: <<>> is None, <<v>> is the value v.
NoneVal == <<>>
Some(v) == <<v>>
IsNone(o) == o = <<>>

\* The characters texts are made of; Text(n) is a text of n distinct characters.
Alphabet == <<"a", "b", "c", "d", "e", "f", "g", "h", "i", "j">>
Text(n) == SubSeq(Alphabet, 1, n)
Spaces(n) == [i \in 1..Max(n, 0) |-> " "]

\* Python's slice bound: s[:k] ends, and s[k:] starts, at this offset of a
\* string of length n (a negative k counts from the end).
PySliceIndex(k, n) == IF k < 0 THEN Max(0, n + k) ELSE Min(k, n)
SliceTo(s, k) == SubSeq(s, 1, PySliceIndex(k, Len(s)))
SliceFrom(s, k) == SubSeq(s, PySliceIndex(k, Len(s)) + 1, Len(s))

\* ord() and chr() on the characters of the model.
Ord(c) == CASE c = " " -> 32 [] c = "a" -> 97 [] c = "b" -> 98 [] c = "c" -> 99
            [] c = "d" -> 100 [] c = "e" -> 101 [] c = "f" -> 102
            [] c = "g" -> 103 [] c = "h" -> 104 [] c = "i" -> 105
            [] c = "j" -> 106
Chr(n) == CASE n = 32 -> " " [] n = 97 -> "a" [] n = 98 -> "b" [] n = 99 -> "c"
            [] n = 100 -> "d" [] n = 101 -> "e" [] n = 102 -> "f"
            [] n = 103 -> "g" [] n = 104 -> "h" [] n = 105 -> "i"
            [] n = 106 -> "j"

(***************************************************************************)
(* Colours.  A colour triple is <<foreground, attribute, background>>.     *)
(***************************************************************************)
DefaultColours == <<"COLOUR_WHITE", "A_NORMAL", "COLOUR_BLACK">>
OtherColours == <<"COLOUR_RED", "A_BOLD", "COLOUR_BLUE">>
ColourSet == {DefaultColours, OtherColours}

(***************************************************************************)
(* The canvas (external collaborator; its contract is section 6 of the     *)
(* specification).  A cell is <<char, colour, attr, bg>>.  buffer[r][c] is *)
(* the cell of visible row r (logical row r + start_line) and column c.    *)
(***************************************************************************)
BlankCell(colours) == <<" ", colours[1], colours[2], colours[3]>>
EmptyLine(w) == [c \in 0..(w - 1) |-> BlankCell(DefaultColours)]

NewCanvas(w, h) ==
    [width |-> w, height |-> h, start_line |-> 0,
     buffer |-> [r \in 0..(h - 1) |-> EmptyLine(w)]]

\* print_at(text, x, y, colour, attr, bg): cells outside the buffer are dropped.
CanvasPrintAt(cv, text, x, y, colours) ==
    LET r == y - cv.start_line IN
    IF r < 0 \/ r >= cv.height THEN cv
    ELSE [cv EXCEPT !.buffer[r] =
            [c \in 0..(cv.width - 1) |->
                IF c - x >= 0 /\ c - x < Len(text)
                THEN <<text[c - x + 1], colours[1], colours[2], colours[3]>>
                ELSE @[c]]]

\* get_from(x, y): the cell, or None outside the buffer.
CanvasGetFrom(cv, x, y) ==
    LET r == y - cv.start_line IN
    IF r < 0 \/ r >= cv.height \/ x < 0 \/ x >= cv.width THEN NoneVal
    ELSE LET cell == cv.buffer[r][x] IN
         Some(<<Ord(cell[1]), cell[2], cell[3], cell[4]>>)

\* clear_buffer(colour, attr, bg): every cell becomes a blank in these colours.
CanvasClearBuffer(cv, colours) ==
    [cv EXCEPT !.buffer = [r \in 0..(cv.height - 1) |->
                            [c \in 0..(cv.width - 1) |-> BlankCell(colours)]]]

\* scroll(lines): the window moves down by lines (up when negative); rows that
\* enter the window are empty.
CanvasScroll(cv, lines) ==
    [cv EXCEPT !.start_line = @ + lines,
               !.buffer = [r \in 0..(cv.height - 1) |->
                            IF r + lines >= 0 /\ r + lines < cv.height
                            THEN cv.buffer[r + lines]
                            ELSE EmptyLine(cv.width)]]

\* The renderer's _clear(): the cells are blanked, the window stays where it is.
CanvasClear(cv) == CanvasClearBuffer(cv, DefaultColours)

\* reset(): back to the as-constructed canvas.
CanvasReset(cv) == NewCanvas(cv.width, cv.height)

\* The cell shown at logical row y, column x (for stating properties).
CellAt(cv, x, y) == cv.buffer[y - cv.start_line][x]
InView(cv, y) == y - cv.start_line >= 0 /\ y - cv.start_line < cv.height

(***************************************************************************)
(* AbstractScreenPlayer: the fields set by __init__ and reset().           *)
(* writes is the log of print_at calls issued to the canvas by the current *)
(* operation, each [x, y, n]: n characters from column x of row y.         *)
(* next holds a timestamp; next_str tells that _next has been assigned a   *)
(* string instead (a key of a JSON object unpacked as an event).           *)
(***************************************************************************)
\* _buffer: None, or the payload of an event (idx: the source line it came from).
NoBuffer == [some |-> FALSE, text |-> <<>>, idx |-> 0]

PlayerReset(cv) ==
    [current_colours |-> DefaultColours,
     show_cursor |-> FALSE,
     cursor_x |-> 0,
     cursor_y |-> 0,
     save_cursor_x |-> 0,
     save_cursor_y |-> 0,
     counter |-> 0,
     next |-> 0,
     next_str |-> FALSE,
     buffer |-> NoBuffer,
     canvas |-> CanvasReset(cv),
     writes |-> <<>>]

PlayerInit(w, h) == PlayerReset(NewCanvas(w, h))

\* Every call of the canvas's print_at passes through here.
IssueWrite(s, text, x, y, colours) ==
    [s EXCEPT !.canvas = CanvasPrintAt(@, text, x, y, colours),
              !.writes = Append(@, [x |-> x, y |-> y, n |-> Len(text)])]

\* A _print_at that prints in the default colours.
PrintAt_DefaultColours(s, text, x, y) == IssueWrite(s, text, x, y, DefaultColours)

\* _print_at(text, x, y): print in the current colours.
PrintAt(s, text, x, y) == IssueWrite(s, text, x, y, s.current_colours)

\* A scroll that waits until the cursor is two rows below the window.
ScrollIfBelow_Late(s) ==
    IF s.cursor_y - s.canvas.start_line > s.canvas.height
    THEN [s EXCEPT !.canvas = CanvasScroll(@, 1)]
    ELSE s

\* Scroll the canvas by one line when the cursor is below the window.
ScrollIfBelow(s) ==
    IF s.cursor_y - s.canvas.start_line >= s.canvas.height
    THEN [s EXCEPT !.canvas = CanvasScroll(@, 1)]
    ELSE s

(***************************************************************************)
(* The command handlers of _play_content, one per command tag.             *)
(***************************************************************************)
TabStop == 8

\* The test that sends a DisplayText down the wrapping branch.
MustWrap(x, n, w) == x + n >= w

DisplayText(s, params) ==
    IF MustWrap(s.cursor_x, Len(params), s.canvas.width)
    THEN LET part_1 == SliceTo(params, s.canvas.width - s.cursor_x)
             part_2 == SliceFrom(params, s.canvas.width - s.cursor_x)
             s1 == PrintAt(s, part_1, s.cursor_x, s.cursor_y)
             s2 == PrintAt(s1, part_2, 0, s.cursor_y + 1)
             s3 == [s2 EXCEPT !.cursor_x = Len(part_2), !.cursor_y = @ + 1]
         IN ScrollIfBelow(s3)
    ELSE [PrintAt(s, params, s.cursor_x, s.cursor_y)
            EXCEPT !.cursor_x = @ + Len(params)]

ChangeColours(s, params) == [s EXCEPT !.current_colours = params]

\* A NextTab that stays on a tab stop it is already on.
NextTab_Ceiling(s) ==
    [s EXCEPT !.cursor_x = ((@ + TabStop - 1) \div TabStop) * TabStop]

NextTab(s) == [s EXCEPT !.cursor_x = (@ \div TabStop) * TabStop + TabStop]

\* A MoveRelative that leaves the window where it is.
MoveRelative_NoScroll(s, params) ==
    [s EXCEPT !.cursor_x = @ + params[1], !.cursor_y = @ + params[2]]

MoveRelative(s, params) ==
    LET s1 == [s EXCEPT !.cursor_x = @ + params[1], !.cursor_y = @ + params[2]]
    IN IF s1.cursor_y < s1.canvas.start_line
       THEN [s1 EXCEPT !.canvas = CanvasScroll(@, s1.cursor_y - s1.canvas.start_line)]
       ELSE s1

\* A MoveAbsolute that takes the row as a row of the buffer, not of the window.
MoveAbsolute_RowUnscrolled(s, params) ==
    LET s1 == IF ~IsNone(params[1]) THEN [s EXCEPT !.cursor_x = params[1][1]] ELSE s
    IN IF ~IsNone(params[2]) THEN [s1 EXCEPT !.cursor_y = params[2][1]] ELSE s1

MoveAbsolute(s, params) ==
    LET s1 == IF ~IsNone(params[1]) THEN [s EXCEPT !.cursor_x = params[1][1]] ELSE s
    IN IF ~IsNone(params[2])
       THEN [s1 EXCEPT !.cursor_y = params[2][1] + s1.canvas.start_line]
       ELSE s1

\* A DeleteLine whose mode 1 also blanks the cell under the cursor.
DeleteLine_ThroughCursor(s, params) ==
    CASE params = 0 ->
            PrintAt(s, Spaces(s.canvas.width - s.cursor_x), s.cursor_x, s.cursor_y)
      [] params = 1 -> PrintAt(s, Spaces(s.cursor_x + 1), 0, s.cursor_y)
      [] params = 2 -> PrintAt(s, Spaces(s.canvas.width), 0, s.cursor_y)
      [] OTHER -> s

DeleteLine(s, params) ==
    CASE params = 0 ->
            PrintAt(s, Spaces(s.canvas.width - s.cursor_x), s.cursor_x, s.cursor_y)
      [] params = 1 -> PrintAt(s, Spaces(s.cursor_x), 0, s.cursor_y)
      [] params = 2 -> PrintAt(s, Spaces(s.canvas.width), 0, s.cursor_y)
      [] OTHER -> s

\* The body of the DeleteChars sweep for column x, then the rest of the sweep.
RECURSIVE DeleteCharsFrom(_, _, _)
DeleteCharsFrom(s, params, x) ==
    IF x >= s.canvas.width THEN s
    ELSE LET got == IF x + params < s.canvas.width
                    THEN CanvasGetFrom(s.canvas, x + params, s.cursor_y)
                    ELSE NoneVal
             cell == IF IsNone(got)
                     THEN <<Ord(" "), s.current_colours[1], s.current_colours[2],
                            s.current_colours[3]>>
                     ELSE got[1]
         IN DeleteCharsFrom(
                IssueWrite(s, <<Chr(cell[1])>>, x, s.cursor_y,
                           <<cell[2], cell[3], cell[4]>>),
                params, x + 1)

\* A DeleteChars that repaints the shifted cells in the current colours.
DeleteChars_PenColours(s, params) ==
    IF ~InView(s.canvas, s.cursor_y) THEN s
    ELSE LET row == s.canvas.buffer[s.cursor_y - s.canvas.start_line]
         IN [s EXCEPT !.canvas.buffer[s.cursor_y - s.canvas.start_line] =
                [c \in 0..(s.canvas.width - 1) |->
                    IF c < s.cursor_x THEN row[c]
                    ELSE IF c + params < s.canvas.width
                         THEN <<row[c + params][1], s.current_colours[1],
                                s.current_colours[2], s.current_colours[3]>>
                         ELSE BlankCell(s.current_colours)]]

DeleteChars(s, params) == DeleteCharsFrom(s, params, s.cursor_x)

ShowCursor(s, params) == [s EXCEPT !.show_cursor = params]

\* A SaveCursor that stores the column only.
SaveCursor_ColumnOnly(s) == [s EXCEPT !.save_cursor_x = s.cursor_x]

\* A SaveCursor that keeps an earlier saved position.
SaveCursor_KeepFirst(s) ==
    IF s.save_cursor_x = 0 /\ s.save_cursor_y = 0
    THEN [s EXCEPT !.save_cursor_x = s.cursor_x, !.save_cursor_y = s.cursor_y]
    ELSE s

SaveCursor(s) ==
    [s EXCEPT !.save_cursor_x = s.cursor_x, !.save_cursor_y = s.cursor_y]

RestoreCursor(s) ==
    [s EXCEPT !.cursor_x = s.save_cursor_x, !.cursor_y = s.save_cursor_y]

\* A ClearScreen that sends the cursor to row 0 instead of the viewport start.
ClearScreen_RowZero(s) ==
    [s EXCEPT !.canvas = CanvasClearBuffer(@, s.current_colours),
              !.cursor_x = 0,
              !.cursor_y = 0]

ClearScreen(s) ==
    [s EXCEPT !.canvas = CanvasClearBuffer(@, s.current_colours),
              !.cursor_x = 0,
              !.cursor_y = s.canvas.start_line]

\* The move to the next line after a fragment that is not the last one.
\* A NextLine that wraps to the top of the window instead of scrolling.
NextLine_WrapToTop(s) ==
    IF s.cursor_y + 1 - s.canvas.start_line >= s.canvas.height
    THEN [s EXCEPT !.cursor_x = 0, !.cursor_y = s.canvas.start_line]
    ELSE [s EXCEPT !.cursor_x = 0, !.cursor_y = @ + 1]

\* A NextLine that scrolls one row too late.
NextLine_ScrollLate(s) ==
    LET s1 == [s EXCEPT !.cursor_x = 0, !.cursor_y = @ + 1]
    IN IF s1.cursor_y - s1.canvas.start_line > s1.canvas.height
       THEN [s1 EXCEPT !.canvas = CanvasScroll(@, 1)]
       ELSE s1

NextLine(s) == ScrollIfBelow([s EXCEPT !.cursor_x = 0, !.cursor_y = @ + 1])

\* The if/elif chain on the command tag.
Dispatch(s, cmd) ==
    CASE cmd.tag = "DISPLAY_TEXT" -> DisplayText(s, cmd.params)
      [] cmd.tag = "CHANGE_COLOURS" -> ChangeColours(s, cmd.params)
      [] cmd.tag = "NEXT_TAB" -> NextTab(s)
      [] cmd.tag = "MOVE_RELATIVE" -> MoveRelative(s, cmd.params)
      [] cmd.tag = "MOVE_ABSOLUTE" -> MoveAbsolute(s, cmd.params)
      [] cmd.tag = "DELETE_LINE" -> DeleteLine(s, cmd.params)
      [] cmd.tag = "DELETE_CHARS" -> DeleteChars(s, cmd.params)
      [] cmd.tag = "SHOW_CURSOR" -> ShowCursor(s, cmd.params)
      [] cmd.tag = "SAVE_CURSOR" -> SaveCursor(s)
      [] cmd.tag = "RESTORE_CURSOR" -> RestoreCursor(s)
      [] cmd.tag = "CLEAR_SCREEN" -> ClearScreen(s)
      [] OTHER -> s

(***************************************************************************)
(* _play_content(text).  A text is a sequence of items: a command of the   *)
(* parser's output, or NL for a "\n" of the raw text.                      *)
(***************************************************************************)
NL == [tag |-> "NL"]
Cmd(tag, params) == [tag |-> tag, params |-> params]
Cmd0(tag) == [tag |-> tag]

\* text.split("\n"): the fragments between the newlines (at least one).
RECURSIVE SplitLines(_)
SplitLines(text) ==
    IF \A i \in 1..Len(text) : text[i] # NL THEN <<text>>
    ELSE LET k == CHOOSE i \in 1..Len(text) :
                    text[i] = NL /\ \A j \in 1..(i - 1) : text[j] # NL
         IN <<SubSeq(text, 1, k - 1)>> \o SplitLines(SubSeq(text, k + 1, Len(text)))

\* The inner loop: every command the parser yields for one fragment.
RECURSIVE PlayCommands(_, _)
PlayCommands(s, line) ==
    IF line = <<>> THEN s ELSE PlayCommands(Dispatch(s, Head(line)), Tail(line))

\* The outer loop over the fragments, from index i (0-based) on.
RECURSIVE PlayLines(_, _, _)
PlayLines(s, lines, i) ==
    IF i >= Len(lines) THEN s
    ELSE LET s1 == PlayCommands(s, lines[i + 1])
             s2 == IF i # Len(lines) - 1 THEN NextLine(s1) ELSE s1
         IN PlayLines(s2, lines, i + 1)

PlayContent(s, text) == PlayLines(s, SplitLines(text), 0)

(***************************************************************************)
(* Specification Spec: the Screen Player fed one parsed item at a time.    *)
(* Each step is one iteration of the dispatch loop (one command), or the   *)
(* move to the next line that follows a fragment ended by "\n".            *)
(***************************************************************************)
NoFile == [lines |-> <<>>, pos |-> 0, closed |-> FALSE, closes |-> 0]
NoOutput ==
    [frames |-> 0, fed |-> <<>>, resets |-> 0, exits |-> 0, eof |-> FALSE, log |-> <<>>]
NoOp == [tag |-> "NONE"]
ScreenCfg == [kind |-> "screen", strip |-> FALSE, rate |-> 0, max_delay |-> 0]

\* The longest text: long enough to overflow two rows.
MaxText == 2 * Width + 1

Init ==
    /\ self = PlayerInit(Width, Height)
    /\ file = NoFile
    /\ cfg = ScreenCfg
    /\ pc = "ready"
    /\ out = NoOutput
    /\ last = NoOp
    /\ prev = NoOp
    /\ steps = 0

\* One step of the player: item is dispatched on the current state.
Step(item, result) ==
    /\ steps < MaxSteps
    /\ self' = result
    /\ last' = item
    /\ prev' = last
    /\ steps' = steps + 1
    /\ UNCHANGED <<file, cfg, pc, out>>

\* The player before an operation: the write log starts empty.
Before == [self EXCEPT !.writes = <<>>]

DoDisplayText ==
    \E n \in 1..MaxText :
        Step(Cmd("DISPLAY_TEXT", Text(n)), DisplayText(Before, Text(n)))

DoChangeColours ==
    \E c \in ColourSet :
        Step(Cmd("CHANGE_COLOURS", c), ChangeColours(Before, c))

DoNextTab == Step(Cmd0("NEXT_TAB"), NextTab(Before))

DoMoveRelative ==
    \E d \in 1..MaxMove :
        \E p \in {<<d, 0>>, <<-d, 0>>, <<0, d>>, <<0, -d>>} :
            Step(Cmd("MOVE_RELATIVE", p), MoveRelative(Before, p))

DoMoveAbsolute ==
    \E x \in {NoneVal, Some(0), Some(Width)} :
        \E y \in {NoneVal, Some(0), Some(Height - 1), Some(Height)} :
            /\ ~(IsNone(x) /\ IsNone(y))
            /\ Step(Cmd("MOVE_ABSOLUTE", <<x, y>>), MoveAbsolute(Before, <<x, y>>))

DoDeleteLine ==
    \E m \in 0..3 :
        Step(Cmd("DELETE_LINE", m), DeleteLine(Before, m))

DoDeleteChars ==
    \E n \in 0..2 :
        Step(Cmd("DELETE_CHARS", n), DeleteChars(Before, n))

DoShowCursor ==
    \E b \in BOOLEAN :
        Step(Cmd("SHOW_CURSOR", b), ShowCursor(Before, b))

DoSaveCursor == Step(Cmd0("SAVE_CURSOR"), SaveCursor(Before))

DoRestoreCursor == Step(Cmd0("RESTORE_CURSOR"), RestoreCursor(Before))

DoClearScreen == Step(Cmd0("CLEAR_SCREEN"), ClearScreen(Before))

DoNextLine == Step(NL, NextLine(Before))

Next ==
    \/ DoDisplayText
    \/ DoChangeColours
    \/ DoNextTab
    \/ DoMoveRelative
    \/ DoMoveAbsolute
    \/ DoDeleteLine
    \/ DoDeleteChars
    \/ DoShowCursor
    \/ DoSaveCursor
    \/ DoRestoreCursor
    \/ DoClearScreen
    \/ DoNextLine

Spec == Init /\ [][Next]_vars

(***************************************************************************)
(* Properties of the Screen Player (specification Spec).                   *)
(***************************************************************************)
\* The canvas shows character ch at column x of logical row y.
Shows(cv, x, y, ch) ==
    /\ InView(cv, y)
    /\ x >= 0 /\ x < cv.width
    /\ CellAt(cv, x, y)[1] = ch

\* Every cell of the visible window equals cell.
AllCells(cv, cell) ==
    \A r \in 0..(cv.height - 1) : \A c \in 0..(cv.width - 1) : cv.buffer[r][c] = cell

\* The step now being taken dispatches a command with this tag.
Doing(tag) == last'.tag = tag

\* C1: a DisplayText that fits in the rest of the row (cursor_x + len(text) <=
\* width, the exact fit included) advances cursor_x by len(text) and leaves
\* cursor_y and the viewport start unchanged.
C1_FitAdvancesNoWrap ==
    [][(Doing("DISPLAY_TEXT")
        /\ self.cursor_x + Len(last'.params) <= self.canvas.width)
       => /\ self'.cursor_x = self.cursor_x + Len(last'.params)
          /\ self'.cursor_y = self.cursor_y
          /\ self'.canvas.start_line = self.canvas.start_line]_vars

\* C2: a DisplayText that overflows the row is split at width - cursor_x: the
\* first part is written from (cursor_x, cursor_y), the rest from column 0 of the
\* next row, cursor_y grows by 1, and every character of the text is afterwards
\* shown in its own cell inside the canvas width.
C2_OverflowSplitKeepsAll ==
    [][(Doing("DISPLAY_TEXT")
        /\ self.cursor_x + Len(last'.params) > self.canvas.width)
       => LET text == last'.params
              k == self.canvas.width - self.cursor_x
          IN /\ self'.writes =
                    <<[x |-> self.cursor_x, y |-> self.cursor_y, n |-> k],
                      [x |-> 0, y |-> self.cursor_y + 1, n |-> Len(text) - k]>>
             /\ self'.cursor_y = self.cursor_y + 1
             /\ \A i \in 1..Len(text) :
                    IF i <= k
                    THEN Shows(self'.canvas, self.cursor_x + i - 1, self.cursor_y,
                               text[i])
                    ELSE Shows(self'.canvas, i - k - 1, self.cursor_y + 1,
                               text[i])]_vars

\* C3: every write the player issues to the canvas covers only columns c with
\* 0 <= c < width.
C3_WritesInsideWidth ==
    \A i \in 1..Len(self.writes) :
        /\ self.writes[i].x >= 0
        /\ self.writes[i].x + self.writes[i].n <= self.canvas.width

\* The parts of the player that SaveCursor and RestoreCursor must not touch.
Picture(s) == <<s.canvas, s.current_colours>>

\* C4: SaveCursor followed at once by RestoreCursor leaves the cursor where it
\* was before the SaveCursor, and neither changes a cell, the colour pen or the
\* viewport start.
C4_SaveRestoreNoOp ==
    [][/\ Doing("SAVE_CURSOR")
          => /\ self'.cursor_x = self.cursor_x
             /\ self'.cursor_y = self.cursor_y
             /\ Picture(self') = Picture(self)
       /\ (last.tag = "SAVE_CURSOR" /\ Doing("RESTORE_CURSOR"))
          => /\ self'.cursor_x = self.cursor_x
             /\ self'.cursor_y = self.cursor_y
             /\ Picture(self') = Picture(self)]_vars

\* A RestoreCursor right after a SaveCursor, away from the initial saved position.
C4_Witness ==
    /\ prev.tag = "SAVE_CURSOR"
    /\ last.tag = "RESTORE_CURSOR"
    /\ self.cursor_x > 0
    /\ self.cursor_y > 0

\* C5: ClearScreen puts the cursor at (0, viewport start) and leaves every cell
\* of the window blank in the colours current at the time of the command.
C5_ClearScreen ==
    [][Doing("CLEAR_SCREEN")
       => /\ self'.cursor_x = 0
          /\ self'.cursor_y = self.canvas.start_line
          /\ self'.canvas.start_line = self.canvas.start_line
          /\ AllCells(self'.canvas, BlankCell(self.current_colours))]_vars

\* A ClearScreen after the viewport has scrolled.
C5_Witness ==
    /\ last.tag = "CLEAR_SCREEN"
    /\ self.canvas.start_line > 0
    /\ self.cursor_y = self.canvas.start_line

(***************************************************************************)
(* The byte source and the drivers.  A driver step works on a machine      *)
(* m = [s, f, fed, err, eof]: the player, its file, the log of the source *)
(* lines (1-based) whose text was passed to _play_content, whether the     *)
(* step has raised an exception that _render_now does not catch, and       *)
(* whether a read of the next record found the file exhausted.             *)
(***************************************************************************)
MaxTicks == 5
MaxExits == 2
MaxResets == 1
MaxLines == 3
MaxRate == 2

OpenFile(lines) == [lines |-> lines, pos |-> 0, closed |-> FALSE, closes |-> 0]
AtEof(f) == f.pos >= Len(f.lines)
Machine(s, f, fed) == [s |-> s, f |-> f, fed |-> fed, err |-> FALSE, eof |-> FALSE]
Raise(m) == [m EXCEPT !.err = TRUE]

\* _play_content(text) for the text of source line idx.
Feed(m, text, idx) ==
    [m EXCEPT !.s = PlayContent(@, text), !.fed = Append(@, idx)]

\* file.close(), counted.
FileClose(f) == [f EXCEPT !.closed = TRUE, !.closes = @ + 1]

\* A file object is always true in a condition, open or closed.
FileIsTrue(f) == TRUE

\* __exit__: close the file if self._file is true.
PlayerExit(f) == IF FileIsTrue(f) THEN FileClose(f) ELSE f

\* A reset() that leaves the file where playback had come to.
ResetMachine_NoRewind(m) ==
    IF m.f.closed
    THEN Raise([m EXCEPT !.s = [PlayerReset(m.s.canvas) EXCEPT
                                  !.canvas = CanvasClear(m.s.canvas)]])
    ELSE [m EXCEPT !.s = PlayerReset(m.s.canvas)]

\* reset() on a constructed player: the fields and _clear(), then file.seek(0),
\* which raises on a closed file, then canvas.reset().
ResetMachine(m) ==
    IF m.f.closed
    THEN Raise([m EXCEPT !.s = [PlayerReset(m.s.canvas) EXCEPT
                                  !.canvas = CanvasClear(m.s.canvas)]])
    ELSE [m EXCEPT !.s = PlayerReset(m.s.canvas), !.f.pos = 0]

(***************************************************************************)
(* AnsiArtPlayer.  A source line is [kind, text]: kind "text" with the     *)
(* parsed items of the decoded line (its "\n" as NL), or kind "bad" for    *)
(* bytes the encoding cannot decode.                                       *)
(***************************************************************************)
TextLine(text) == [kind |-> "text", text |-> text]
BadLine == [kind |-> "bad", text |-> <<>>]

\* line.rstrip("\r\n"): the line without its trailing line terminators.
RECURSIVE RStrip(_)
RStrip(text) ==
    IF text # <<>> /\ text[Len(text)] = NL
    THEN RStrip(SubSeq(text, 1, Len(text) - 1))
    ELSE text

\* What ends the read loop besides the count; in the code, line != "" is the
\* loop's second condition.
LineIsEmpty(line) == line = <<>>

\* The while loop of _render_now: count lines read so far, stop set once the
\* last line read was empty.
RECURSIVE AnsiArtLoop(_, _, _, _, _)
AnsiArtLoop(m, strip, rate, count, stop) ==
    IF ~(count < rate /\ ~stop) THEN m
    ELSE IF m.f.closed THEN Raise(m)
    ELSE IF AtEof(m.f)
         THEN AnsiArtLoop([m EXCEPT !.s = PlayContent(@, <<>>)],
                          strip, rate, count + 1, TRUE)
    ELSE LET rec == m.f.lines[m.f.pos + 1]
             m1 == [m EXCEPT !.f.pos = @ + 1]
             line == IF strip THEN RStrip(rec.text) ELSE rec.text
         IN IF rec.kind = "bad" THEN Raise(m1)
            ELSE AnsiArtLoop(Feed(m1, line, m.f.pos + 1),
                             strip, rate, count + 1, LineIsEmpty(line))

\* A read loop that ends on an empty line before feeding it.
RECURSIVE AnsiArtLoop_DropEmpty(_, _, _, _, _)
AnsiArtLoop_DropEmpty(m, strip, rate, count, stop) ==
    IF ~(count < rate /\ ~stop) THEN m
    ELSE IF m.f.closed THEN Raise(m)
    ELSE IF AtEof(m.f) THEN m
    ELSE LET rec == m.f.lines[m.f.pos + 1]
             m1 == [m EXCEPT !.f.pos = @ + 1]
             line == IF strip THEN RStrip(rec.text) ELSE rec.text
         IN IF rec.kind = "bad" THEN Raise(m1)
            ELSE IF LineIsEmpty(line) THEN m1
            ELSE AnsiArtLoop_DropEmpty(Feed(m1, line, m.f.pos + 1),
                                       strip, rate, count + 1, FALSE)

AnsiArtRenderNow_DropEmpty(m, strip, rate) ==
    AnsiArtLoop_DropEmpty(m, strip, rate, 0, FALSE)

AnsiArtRenderNow(m, strip, rate) == AnsiArtLoop(m, strip, rate, 0, FALSE)

(***************************************************************************)
(* Specification SpecAnsiArt: an AnsiArtPlayer on a file of at most        *)
(* MaxLines lines, ticked, reset and disposed of by its caller.            *)
(***************************************************************************)
AnsiLineSet == {TextLine(<<Cmd("DISPLAY_TEXT", Text(2)), NL>>), TextLine(<<NL>>), BadLine}

AnsiFiles == UNION {[1..n -> AnsiLineSet] : n \in 0..MaxLines}

AnsiInit ==
    /\ \E lines \in AnsiFiles : file = OpenFile(lines)
    /\ \E strip \in BOOLEAN : \E rate \in 1..MaxRate :
          cfg = [kind |-> "ansi", strip |-> strip, rate |-> rate, max_delay |-> 0]
    /\ self = PlayerInit(Width, Height)
    /\ pc = "ready"
    /\ out = NoOutput
    /\ last = NoOp
    /\ prev = NoOp
    /\ steps = 0

\* The machine a driver step starts from.
Now == Machine(Before, file, out.fed)

\* A call of _render_now that ends as machine m: a frame is returned unless it raised.
Tick(m) ==
    /\ pc = "ready"
    /\ steps < MaxTicks
    /\ self' = m.s
    /\ file' = m.f
    /\ out' = [out EXCEPT !.fed = m.fed,
                          !.frames = IF m.err THEN @ ELSE @ + 1,
                          !.eof = @ \/ m.eof]
    /\ last' = [tag |-> "tick", error |-> m.err]
    /\ prev' = last
    /\ steps' = steps + 1
    /\ UNCHANGED <<cfg, pc>>

\* Leaving the context: __exit__.
Exit ==
    /\ pc = "ready"
    /\ out.exits < MaxExits
    /\ file' = PlayerExit(file)
    /\ out' = [out EXCEPT !.exits = @ + 1]
    /\ last' = [tag |-> "exit", error |-> FALSE]
    /\ prev' = last
    /\ UNCHANGED <<self, cfg, pc, steps>>

\* An explicit reset() by the caller.
Reset ==
    /\ pc = "ready"
    /\ out.resets < MaxResets
    /\ LET m == ResetMachine(Now)
       IN /\ self' = m.s
          /\ file' = m.f
          /\ out' = [out EXCEPT !.fed = <<>>, !.resets = @ + 1, !.eof = FALSE]
          /\ last' = [tag |-> "reset", error |-> m.err]
    /\ prev' = last
    /\ UNCHANGED <<cfg, pc, steps>>

AnsiTick == Tick(AnsiArtRenderNow(Now, cfg.strip, cfg.rate))

AnsiNext ==
    \/ AnsiTick
    \/ Exit
    \/ Reset

SpecAnsiArt == AnsiInit /\ [][AnsiNext]_vars

(***************************************************************************)
(* Properties of the AnsiArtPlayer (specification SpecAnsiArt).            *)
(***************************************************************************)
\* The step now being taken is a call of _render_now that returns a frame.
Ticking == last'.tag = "tick" /\ ~last'.error /\ ~file.closed

\* C8: with rate r, a tick before the source is exhausted consumes exactly r
\* lines (fewer only when fewer than r remain), for either setting of strip and
\* also for blank lines; a tick on an exhausted source changes neither the
\* canvas nor the cursor.
C8_RateLinesPerTick ==
    [][Ticking
       => /\ file'.pos - file.pos = Min(cfg.rate, Len(file.lines) - file.pos)
          /\ AtEof(file)
             => /\ self'.canvas = self.canvas
                /\ self'.cursor_x = self.cursor_x
                /\ self'.cursor_y = self.cursor_y]_vars

\* C10: once the context has been left the source is closed, and close() has
\* been invoked exactly once, however often __exit__ ran.
C10_ClosedExactlyOnce ==
    out.exits >= 1 => (file.closed /\ file.closes = 1)

(***************************************************************************)
(* AsciinemaPlayer.  A source line is the header (a JSON object with       *)
(* version, width, height and keys members in all), an event               *)
(* [ts, "o", payload] with ts in hundredths of a second and the payload as *)
(* parsed items, a line that is not JSON, a JSON array of two elements, or *)
(* a JSON number.                                                          *)
(***************************************************************************)
HeaderLine(version, w, h, keys) ==
    [kind |-> "header", version |-> version, width |-> w, height |-> h, keys |-> keys]
EventLine(ts, payload) == [kind |-> "event", ts |-> ts, payload |-> payload]
BadJson == [kind |-> "badjson"]
ShortRecord == [kind |-> "short"]
ScalarRecord == [kind |-> "scalar"]

\* The clock's quantum: 0.05 s.
Quantum == 5

\* The supported format version.
SupportedVersion == 2

\* An unpacking into three targets takes exactly three values.
UnpackCount == 3

\* "if text:" is false for None and for the empty string.
BufferIsTrue(b) == b.some /\ b.text # <<>>

NoPlayer == PlayerInit(0, 0)

\* The header's third key, which the unpacking of a three-member header
\* assigns to _buffer (its first key goes to _next).
LastKeyText == <<Cmd("DISPLAY_TEXT", <<"h", "e", "i", "g", "h", "t">>)>>

\* __init__ without the closing of the file on an unsupported version.
AsciinemaConstruct_NoClose(lines) ==
    LET f == [OpenFile(lines) EXCEPT !.pos = 1]
        header == lines[1]
    IN IF header.version # SupportedVersion
       THEN [pc |-> "failed", f |-> f, s |-> NoPlayer]
       ELSE [pc |-> "ready",
             f |-> [f EXCEPT !.pos = 0],
             s |-> PlayerInit(header.width, header.height)]

\* __init__(filename): open, read the header, check the version, then the base
\* class's __init__, whose reset() ends with file.seek(0).
AsciinemaConstruct(lines) ==
    LET f == [OpenFile(lines) EXCEPT !.pos = 1]
        header == lines[1]
    IN IF header.version # SupportedVersion
       THEN [pc |-> "failed", f |-> FileClose(f), s |-> NoPlayer]
       ELSE [pc |-> "ready",
             f |-> [f EXCEPT !.pos = 0],
             s |-> PlayerInit(header.width, header.height)]

\* A clock that is never moved forward to within max_delay of the next event.
SpeedUp_Never(counter, next, max_delay) == counter

\* "Speed up playback if requested": the clock after an event at next > counter
\* has been decoded (max_delay 0 stands for None, false in the condition alike).
SpeedUp(counter, next, max_delay) ==
    IF max_delay # 0 /\ next - counter > max_delay
    THEN next - max_delay
    ELSE counter

\* The "while True" loop of _render_now.  Every failure of json.loads, of
\* readline on a closed file and of the unpacking is a ValueError and ends the
\* loop; comparing a string with the clock, or unpacking a number, is a
\* TypeError and is not caught.
RECURSIVE AsciinemaLoop(_, _)
AsciinemaLoop(m, max_delay) ==
    IF m.f.closed THEN m
    ELSE IF AtEof(m.f) THEN [m EXCEPT !.eof = TRUE]
    ELSE LET rec == m.f.lines[m.f.pos + 1]
             m1 == [m EXCEPT !.f.pos = @ + 1]
         IN CASE rec.kind \in {"badjson", "short"} -> m1
              [] rec.kind = "scalar" -> Raise(m1)
              [] rec.kind = "header" ->
                    IF rec.keys # UnpackCount THEN m1
                    ELSE Raise([m1 EXCEPT
                            !.s.next_str = TRUE,
                            !.s.buffer = [some |-> TRUE, text |-> LastKeyText,
                                          idx |-> m.f.pos + 1]])
              [] rec.kind = "event" ->
                    LET m2 == [m1 EXCEPT
                                !.s.next = rec.ts,
                                !.s.buffer = [some |-> TRUE, text |-> rec.payload,
                                              idx |-> m.f.pos + 1]]
                    IN IF m2.s.next > m2.s.counter
                       THEN [m2 EXCEPT !.s.counter =
                                SpeedUp(@, m2.s.next, max_delay)]
                       ELSE AsciinemaLoop(
                                IF BufferIsTrue(m2.s.buffer)
                                THEN Feed(m2, m2.s.buffer.text, m2.s.buffer.idx)
                                ELSE m2,
                                max_delay)

AsciinemaRenderNow(m, max_delay) ==
    LET m1 == [m EXCEPT !.s.counter = @ + Quantum]
    IN IF m1.s.next_str THEN Raise(m1)
       ELSE IF m1.s.counter >= m1.s.next
       THEN AsciinemaLoop(
                IF BufferIsTrue(m1.s.buffer)
                THEN [Feed(m1, m1.s.buffer.text, m1.s.buffer.idx)
                        EXCEPT !.s.buffer = NoBuffer]
                ELSE m1,
                max_delay)
       ELSE m1

(***************************************************************************)
(* Specification SpecAsciinema: an AsciinemaPlayer constructed on a        *)
(* recording of at most MaxEvents events with non-decreasing timestamps,   *)
(* then ticked, reset and disposed of by its caller.                       *)
(***************************************************************************)
MaxEvents == 2

Hi == <<Cmd("DISPLAY_TEXT", <<"h", "i">>)>>
PayloadSet == {Hi, <<NL>>}
TsSet == {3, 10, 20}
DelaySet == {0, 4, 10}
EventSet == {EventLine(ts, p) : ts \in TsSet, p \in PayloadSet}

EventSeqs ==
    {es \in UNION {[1..n -> EventSet] : n \in 0..MaxEvents} :
        \A i \in 1..(Len(es) - 1) : es[i].ts <= es[i + 1].ts}

HeaderSet ==
    {HeaderLine(v, Width, Height, k) : v \in {1, SupportedVersion}, k \in {UnpackCount, 5}}

\* The recording of the specification's example.
ExampleRecording ==
    <<HeaderLine(SupportedVersion, 10, 2, UnpackCount),
      EventLine(10, Hi), EventLine(20, <<NL>>)>>

\* The records that are not events.
MalformedSet == {BadJson, ShortRecord, ScalarRecord}

Recordings ==
    {<<h>> \o es \o tail : h \in HeaderSet, es \in EventSeqs, tail \in {<<>>, <<BadJson>>}}
    \cup {<<h, bad, e>> : h \in HeaderSet, bad \in MalformedSet, e \in EventSet}
    \cup {ExampleRecording}

AsciinemaInit ==
    /\ \E lines \in Recordings : file = OpenFile(lines)
    /\ \E d \in DelaySet :
          cfg = [kind |-> "asciinema", strip |-> FALSE, rate |-> 0, max_delay |-> d]
    /\ self = NoPlayer
    /\ pc = "new"
    /\ out = NoOutput
    /\ last = NoOp
    /\ prev = NoOp
    /\ steps = 0

\* AsciinemaPlayer(filename, max_delay=cfg.max_delay)
Construct ==
    /\ pc = "new"
    /\ LET r == AsciinemaConstruct(file.lines)
       IN /\ pc' = r.pc
          /\ file' = r.f
          /\ self' = r.s
          /\ last' = [tag |-> "construct", error |-> r.pc = "failed"]
    /\ prev' = last
    /\ UNCHANGED <<cfg, out, steps>>

AsciinemaTick == Tick(AsciinemaRenderNow(Now, cfg.max_delay))

AsciinemaNext ==
    \/ Construct
    \/ AsciinemaTick
    \/ Exit
    \/ Reset

SpecAsciinema == AsciinemaInit /\ [][AsciinemaNext]_vars

(***************************************************************************)
(* Properties of the AsciinemaPlayer (specification SpecAsciinema).        *)
(***************************************************************************)
\* Source line i has been fed to the Screen Player.
HasBeenFed(i) == \E j \in 1..Len(out.fed) : out.fed[j] = i

\* The first cells of visible row r spell text.
RowStartsWith(cv, r, text) == \A i \in 1..Len(text) : cv.buffer[r][i - 1][1] = text[i]

\* C6: on a version-2 recording every tick of an open player completes without
\* error and leaves every event whose timestamp is <= the clock fed to the
\* Screen Player; on the example recording the first row starts with "hi" once
\* two ticks have advanced the clock.
C6_DueEventsFed ==
    (last.tag = "tick" /\ ~file.closed)
    => /\ ~last.error
       /\ \A i \in 1..Len(file.lines) :
            (file.lines[i].kind = "event" /\ file.lines[i].ts <= self.counter)
            => HasBeenFed(i)
       /\ (file.lines = ExampleRecording /\ self.counter >= 2 * Quantum)
            => RowStartsWith(self.canvas, 0, <<"h", "i">>)

\* An event has been decoded and waits in _buffer for the clock to reach it.
Pending(s) == s.buffer.some /\ ~s.next_str /\ s.next > s.counter

Sorted(seq) == \A i \in 1..Len(seq) : \A j \in i..Len(seq) : seq[i] <= seq[j]

\* C7: with max_delay = d > 0, a tick that decodes an event more than d ahead
\* of the clock sets the clock to (timestamp - d); after any tick a pending
\* event is at most d ahead of the clock; no tick moves the clock backwards;
\* events are played in file order.
C7_MaxDelayClamps ==
    [][(last'.tag = "tick" /\ cfg.max_delay > 0)
       => /\ self'.counter >= self.counter
          /\ Pending(self') => self'.next - self'.counter <= cfg.max_delay
          /\ (Pending(self') /\ self'.buffer.idx # self.buffer.idx)
             => self'.counter =
                    IF self'.next - (self.counter + Quantum) > cfg.max_delay
                    THEN self'.next - cfg.max_delay
                    ELSE self.counter + Quantum
          /\ Sorted(out'.fed)]_vars

\* A tick has played an event and then moved the clock forward to within
\* max_delay of the next one.
C7_Witness ==
    /\ last.tag = "tick"
    /\ cfg.max_delay > 0
    /\ Pending(self)
    /\ self.counter = self.next - cfg.max_delay
    /\ self.counter % Quantum # 0
    /\ out.fed # <<>>

\* C9: construction on a header whose version is not 2 fails, with the file
\* closed (by one close()), nothing but the header read, no frame produced and
\* nothing played; construction on version 2 succeeds.
C9_UnsupportedVersionFails ==
    pc # "new"
    => IF file.lines[1].version # SupportedVersion
       THEN /\ pc = "failed"
            /\ file.closed /\ file.closes = 1
            /\ file.pos = 1
            /\ out.frames = 0 /\ out.fed = <<>>
       ELSE pc = "ready"

\* A construction that has failed on a version-1 header.
C9_Witness ==
    /\ pc = "failed"
    /\ last.tag = "construct"
    /\ file.lines[1].version = 1

\* C11: once a read of the next record has found the recording exhausted,
\* every later tick is a no-op: the clock does not advance and the canvas,
\* the cursor and the colours are unchanged.
C11_ExhaustedTicksAreNoOps ==
    [][(last'.tag = "tick" /\ out.eof /\ ~file.closed) =>
          /\ self'.counter = self.counter
          /\ self'.canvas = self.canvas
          /\ self'.cursor_x = self.cursor_x
          /\ self'.cursor_y = self.cursor_y
          /\ self'.current_colours = self.current_colours]_vars

\* The source lines a tick has read: those between the two file positions.
ReadBy(f, g) == {k \in 1..Len(f.lines) : f.pos < k /\ k <= g.pos}
Malformed(rec) == rec \in MalformedSet

\* C12: a tick that reads a malformed record (not JSON, or not an array of
\* three elements) returns normally, and no record that follows a malformed
\* one is ever played.
C12_MalformedEndsStream ==
    [][last'.tag = "tick" =>
          /\ (\E k \in ReadBy(file, file') : Malformed(file.lines[k]))
                => ~last'.error
          /\ \A i \in 1..Len(out'.fed) :
                \A k \in 2..(out'.fed[i] - 1) : ~Malformed(file.lines[k])]_vars

(***************************************************************************)
(* Further properties of the Screen Player (specification Spec).           *)
(***************************************************************************)
CursorCommands ==
    {"MOVE_RELATIVE", "MOVE_ABSOLUTE", "NEXT_TAB", "DELETE_CHARS", "DELETE_LINE"}

\* C13: after a MoveRelative, MoveAbsolute, NextTab, DeleteChars or DeleteLine
\* with any integer parameters the cursor is clamped: 0 <= cursor_x <= width
\* and cursor_y >= 0.
C13_CursorClamped ==
    last.tag \in CursorCommands =>
        /\ 0 <= self.cursor_x
        /\ self.cursor_x <= self.canvas.width
        /\ 0 <= self.cursor_y

\* C14: between two resets every event's payload is fed to the Screen Player
\* at most once and in file order: the fed source lines strictly increase.
C14_PayloadFedOnce ==
    \A i \in 1..Len(out.fed) : \A j \in 1..Len(out.fed) :
        i < j => out.fed[i] < out.fed[j]

(***************************************************************************)
(* Specification SpecCursor: the Screen Player fed only cursor movements   *)
(* by one cell, newlines, SaveCursor and RestoreCursor, for MaxCursorSteps *)
(* steps.                                                                  *)
(* out.log records each command with the cursor position it was issued at. *)
(***************************************************************************)
MaxCursorSteps == 7

CursorStep(item, result) ==
    /\ steps < MaxCursorSteps
    /\ self' = result
    /\ last' = item
    /\ prev' = last
    /\ steps' = steps + 1
    /\ out' = [out EXCEPT !.log =
                  Append(@, [tag |-> item.tag, at |-> <<self.cursor_x, self.cursor_y>>])]
    /\ UNCHANGED <<file, cfg, pc>>

CursorMove ==
    \E p \in {<<1, 0>>, <<-1, 0>>, <<0, 1>>, <<0, -1>>} :
        CursorStep(Cmd("MOVE_RELATIVE", p), MoveRelative(Before, p))

CursorSave == CursorStep(Cmd0("SAVE_CURSOR"), SaveCursor(Before))

CursorRestore == CursorStep(Cmd0("RESTORE_CURSOR"), RestoreCursor(Before))

CursorNewline == CursorStep(NL, NextLine(Before))

CursorNext ==
    \/ CursorMove
    \/ CursorSave
    \/ CursorRestore
    \/ CursorNewline

SpecCursor == Init /\ [][CursorNext]_vars

\* The positions at which SaveCursor was issued, oldest first.
RECURSIVE SavedAt(_)
SavedAt(log) ==
    IF log = <<>> THEN <<>>
    ELSE IF log[1].tag = "SAVE_CURSOR"
         THEN <<log[1].at>> \o SavedAt(Tail(log))
         ELSE SavedAt(Tail(log))

Tags(log) == [i \in 1..Len(log) |-> log[i].tag]

\* C15: the saved cursor is a single slot.  After a RestoreCursor the cursor
\* is at the position of the most recent SaveCursor, whatever was saved
\* before and however often RestoreCursor has run since.
C15_SingleSaveSlot ==
    LET saved == SavedAt(out.log)
    IN (last.tag = "RESTORE_CURSOR" /\ saved # <<>>) =>
          <<self.cursor_x, self.cursor_y>> = saved[Len(saved)]

\* Save at p1, move, save at p2, move, restore, restore: the cursor is at p2.
C15_Witness ==
    LET saved == SavedAt(out.log)
    IN /\ Tags(out.log) = <<"MOVE_RELATIVE", "SAVE_CURSOR", "MOVE_RELATIVE", "SAVE_CURSOR",
                            "MOVE_RELATIVE", "RESTORE_CURSOR", "RESTORE_CURSOR">>
       /\ saved[1] # saved[2]
       /\ <<self.cursor_x, self.cursor_y>> = saved[2]

(***************************************************************************)
(* Specification SpecContent: the Screen Player fed whole texts through    *)
(* _play_content (texts of up to the canvas width, alone, before and after *)
(* a newline, and bare newlines), with cursor movements between them.      *)
(***************************************************************************)
Texts == {<<Cmd("DISPLAY_TEXT", Text(n))>> : n \in 1..Width}

ContentTexts ==
    Texts
    \cup {t \o <<NL>> : t \in Texts}
    \cup {<<NL>> \o t : t \in Texts}
    \cup {t \o <<NL>> \o u : t \in Texts, u \in Texts}
    \cup {<<NL>>, <<NL, NL>>}

DoPlayContent ==
    \E text \in ContentTexts :
        Step([tag |-> "PLAY", text |-> text], PlayContent(Before, text))

ContentNext ==
    \/ DoPlayContent
    \/ DoMoveRelative

SpecContent == Init /\ [][ContentNext]_vars

\* The step feeds the text t followed by one newline, and t ends exactly at
\* the last column.
ExactFitThenNewline ==
    /\ last'.tag = "PLAY"
    /\ Len(last'.text) = 2
    /\ last'.text[1].tag = "DISPLAY_TEXT"
    /\ last'.text[2] = NL
    /\ self.cursor_x + Len(last'.text[1].params) = self.canvas.width

\* C16: a text that ends exactly at the last column, followed by one newline,
\* advances cursor_y by exactly 1 in total and scrolls at most once.
C16_ExactFitNewline ==
    [][ExactFitThenNewline =>
          /\ self'.cursor_y = self.cursor_y + 1
          /\ self'.cursor_x = 0
          /\ self'.canvas.start_line <= self.canvas.start_line + 1]_vars

\* C17 as stated: cursor_y never decreases from one step to the next, except
\* in a step that is RestoreCursor or ClearScreen.
C17_RowNeverDecreases ==
    [][self'.cursor_y < self.cursor_y =>
          last'.tag \in {"RESTORE_CURSOR", "CLEAR_SCREEN"}]_vars

\* The step is a movement that may go up: a MoveRelative with a negative row
\* delta, or a MoveAbsolute that gives a row.
MovesUp ==
    \/ last'.tag = "MOVE_RELATIVE" /\ last'.params[2] < 0
    \/ last'.tag = "MOVE_ABSOLUTE" /\ ~IsNone(last'.params[2])

\* C17, amended: cursor_y never decreases from one step to the next, except
\* in a step that is RestoreCursor, ClearScreen, a MoveRelative with a
\* negative row delta or a MoveAbsolute that gives a row.
C17_RowDecreasesOnlyByMoves ==
    [][self'.cursor_y < self.cursor_y =>
          (last'.tag \in {"RESTORE_CURSOR", "CLEAR_SCREEN"} \/ MovesUp)]_vars

\* A newline took the cursor to row 1 and a MoveRelative took it back up.
C17_Witness ==
    /\ prev.tag = "NL"
    /\ last.tag = "MOVE_RELATIVE"
    /\ last.params = <<0, -1>>
    /\ self.cursor_y = 0

\* The number of one-line scrolls k newlines cause from row y with the window
\* starting at st: one for each newline whose new row is at or below st + h.
RECURSIVE ScrollsFor(_, _, _, _)
ScrollsFor(y, st, h, k) ==
    IF k = 0 THEN 0
    ELSE IF y + 1 - st >= h
         THEN 1 + ScrollsFor(y + 1, st + 1, h, k - 1)
         ELSE ScrollsFor(y + 1, st, h, k - 1)

OnlyNewlines(text) == \A i \in 1..Len(text) : text[i] = NL

\* C18: each newline that separates two fragments sets cursor_x to 0, adds 1
\* to cursor_y and scrolls the window by one line exactly when the new row
\* minus the window start is >= the height; the final fragment (the text
\* after the last newline, or a text without newline) causes no advance.
C18_NewlineAdvances ==
    [][last'.tag = "PLAY" =>
        LET text == last'.text
            cv == self.canvas
        IN /\ OnlyNewlines(text) =>
                /\ self'.cursor_x = 0
                /\ self'.cursor_y = self.cursor_y + Len(text)
                /\ self'.canvas.start_line = cv.start_line +
                        ScrollsFor(self.cursor_y, cv.start_line, cv.height, Len(text))
           /\ (Len(text) = 2 /\ text[1] = NL /\ text[2].tag = "DISPLAY_TEXT"
                    /\ Len(text[2].params) < cv.width) =>
                /\ self'.cursor_x = Len(text[2].params)
                /\ self'.cursor_y = self.cursor_y + 1
                /\ self'.canvas.start_line = cv.start_line +
                        ScrollsFor(self.cursor_y, cv.start_line, cv.height, 1)
           /\ (Len(text) = 1 /\ text[1].tag = "DISPLAY_TEXT" /\ self.cursor_x >= 0
                    /\ self.cursor_x + Len(text[1].params) < cv.width) =>
                /\ self'.cursor_x = self.cursor_x + Len(text[1].params)
                /\ self'.cursor_y = self.cursor_y
                /\ self'.canvas.start_line = cv.start_line]_vars

\* Two newlines from the bottom row but one: the second one scrolled.
C18_Witness ==
    /\ last.tag = "PLAY"
    /\ last.text = <<NL, NL>>
    /\ self.cursor_x = 0
    /\ self.canvas.start_line > 0
    /\ self.cursor_y - self.canvas.start_line = self.canvas.height - 1

\* C19: MoveRelative(dx, dy) adds dx to cursor_x and dy to cursor_y; if the new
\* row is above the window start the window is scrolled by their (negative)
\* difference, so that start_line = cursor_y afterwards; otherwise the window
\* is not scrolled.
C19_MoveRelative ==
    [][Doing("MOVE_RELATIVE") =>
        LET dx == last'.params[1]
            dy == last'.params[2]
            cv == self.canvas
        IN /\ self'.cursor_x = self.cursor_x + dx
           /\ self'.cursor_y = self.cursor_y + dy
           /\ IF self.cursor_y + dy < cv.start_line
              THEN /\ self'.canvas.start_line = self'.cursor_y
                   /\ self'.canvas = CanvasScroll(cv, self.cursor_y + dy - cv.start_line)
              ELSE self'.canvas = cv]_vars

\* From the origin, one row up: the window followed the cursor.
C19_Witness ==
    /\ prev.tag = "NONE"
    /\ last.tag = "MOVE_RELATIVE"
    /\ last.params = <<0, -1>>
    /\ self.cursor_y = -1
    /\ self.canvas.start_line = -1

\* C20: MoveAbsolute(x?, y?) sets cursor_x to x only when x is given and
\* cursor_y to y + start_line only when y is given, without clamping; a
\* coordinate not given is left unchanged; no cell, colour or window start
\* changes.
C20_MoveAbsolute ==
    [][Doing("MOVE_ABSOLUTE") =>
        LET x == last'.params[1]
            y == last'.params[2]
        IN /\ self'.cursor_x = IF IsNone(x) THEN self.cursor_x ELSE x[1]
           /\ self'.cursor_y =
                 IF IsNone(y) THEN self.cursor_y ELSE y[1] + self.canvas.start_line
           /\ self'.canvas = self.canvas
           /\ self'.current_colours = self.current_colours
           /\ self'.writes = <<>>]_vars

\* On a scrolled window, a row alone was given, at the height: the cursor is
\* below the window and its column, not 0, was kept.
C20_Witness ==
    /\ last.tag = "MOVE_ABSOLUTE"
    /\ IsNone(last.params[1])
    /\ last.params[2] = Some(Height)
    /\ self.canvas.start_line > 0
    /\ self.cursor_y = Height + self.canvas.start_line
    /\ self.cursor_x > 0

\* The cursor is on a cell of the visible window.
CursorInside(s) ==
    /\ InView(s.canvas, s.cursor_y)
    /\ 0 <= s.cursor_x
    /\ s.cursor_x < s.canvas.width

\* The columns DeleteLine(mode) blanks with the cursor at column x.
Erased(mode, x, c) ==
    \/ mode = 0 /\ c >= x
    \/ mode = 1 /\ c < x
    \/ mode = 2

\* C21: DeleteLine(mode) with the cursor inside the canvas blanks, in the
\* current colours and on the cursor's row only, the cells from cursor_x to
\* the end of the row (mode 0), the cells from column 0 up to cursor_x (mode
\* 1) or the whole row (mode 2); the cursor, the other cells and the other
\* rows are unchanged, and any other mode changes nothing.
C21_DeleteLine ==
    [][(Doing("DELETE_LINE") /\ CursorInside(self)) =>
        LET cv == self.canvas
            row == self.cursor_y - cv.start_line
        IN /\ self'.cursor_x = self.cursor_x
           /\ self'.cursor_y = self.cursor_y
           /\ self'.current_colours = self.current_colours
           /\ self'.canvas.start_line = cv.start_line
           /\ \A r \in 0..(cv.height - 1) : \A c \in 0..(cv.width - 1) :
                 self'.canvas.buffer[r][c] =
                    IF r = row /\ Erased(last'.params, self.cursor_x, c)
                    THEN BlankCell(self.current_colours)
                    ELSE cv.buffer[r][c]]_vars

\* "abcd" wrapped onto two rows, the colours changed, then DeleteLine(1) with
\* the cursor on column 1 of the second row: "d" is blanked, "abc" stays.
C21_Witness ==
    /\ last.tag = "DELETE_LINE"
    /\ last.params = 1
    /\ self.cursor_x = 1
    /\ self.cursor_y = 1
    /\ self.canvas.start_line = 0
    /\ self.current_colours = OtherColours
    /\ self.canvas.buffer[1][0] = BlankCell(OtherColours)
    /\ self.canvas.buffer[1][1] = BlankCell(DefaultColours)
    /\ self.canvas.buffer[0][0][1] = "a"

\* C22: DeleteChars(n), n >= 0, with the cursor inside the canvas: every cell
\* of the cursor's row at a column x >= cursor_x becomes the cell that was at
\* x + n (character and its own colours) when x + n < width, and a blank in
\* the current colours otherwise; the cells left of the cursor, the other rows
\* and the cursor are unchanged, and DeleteChars(0) changes no cell.
C22_DeleteChars ==
    [][(Doing("DELETE_CHARS") /\ last'.params >= 0 /\ CursorInside(self)) =>
        LET cv == self.canvas
            row == self.cursor_y - cv.start_line
            n == last'.params
        IN /\ self'.cursor_x = self.cursor_x
           /\ self'.cursor_y = self.cursor_y
           /\ self'.canvas.start_line = cv.start_line
           /\ \A r \in 0..(cv.height - 1) : \A c \in 0..(cv.width - 1) :
                 self'.canvas.buffer[r][c] =
                    IF r = row /\ c >= self.cursor_x
                    THEN IF c + n < cv.width
                         THEN cv.buffer[r][c + n]
                         ELSE BlankCell(self.current_colours)
                    ELSE cv.buffer[r][c]
           /\ n = 0 => self'.canvas = cv]_vars

\* "ab" written, the cursor sent back to column 0, DeleteChars(1): "b" is now
\* in column 0.
C22_Witness ==
    /\ last.tag = "DELETE_CHARS"
    /\ last.params = 1
    /\ prev.tag = "MOVE_ABSOLUTE"
    /\ self.cursor_x = 0
    /\ self.cursor_y = 0
    /\ self.canvas.buffer[0][0][1] = "b"
    /\ self.canvas.buffer[0][1][1] = " "

\* The colours of a cell.
ColoursOf(cell) == <<cell[2], cell[3], cell[4]>>

\* The canvas of the state before the step, moved as far as the step scrolled.
Scrolled == CanvasScroll(self.canvas, self'.canvas.start_line - self.canvas.start_line)

\* C23: the colour pen is changed by ChangeColours only, to the triple given;
\* it is white / normal / black before any ChangeColours; every cell that a
\* DisplayText, DeleteLine or ClearScreen writes carries the pen's triple; and
\* ChangeColours changes no cell and no cursor position.
C23_PenOnlyByChangeColours ==
    [][/\ last.tag = "NONE" => self.current_colours = DefaultColours
       /\ IF Doing("CHANGE_COLOURS")
          THEN /\ self'.current_colours = last'.params
               /\ self'.canvas = self.canvas
               /\ self'.cursor_x = self.cursor_x
               /\ self'.cursor_y = self.cursor_y
          ELSE self'.current_colours = self.current_colours
       /\ last'.tag \in {"DISPLAY_TEXT", "DELETE_LINE", "CLEAR_SCREEN"} =>
             \A r \in 0..(self.canvas.height - 1) :
                \A c \in 0..(self.canvas.width - 1) :
                    self'.canvas.buffer[r][c] # Scrolled.buffer[r][c] =>
                        ColoursOf(self'.canvas.buffer[r][c]) = self.current_colours]_vars

\* A text in the default colours, a ChangeColours, a second text: the first
\* keeps its colours, the second has the new ones.
C23_Witness ==
    /\ last.tag = "DISPLAY_TEXT"
    /\ prev.tag = "CHANGE_COLOURS"
    /\ self.current_colours = OtherColours
    /\ self.canvas.buffer[0][0] = <<"a", DefaultColours[1], DefaultColours[2], DefaultColours[3]>>
    /\ self.canvas.buffer[0][1] = <<"a", OtherColours[1], OtherColours[2], OtherColours[3]>>

\* C24: NextTab from a column x >= 0 sets cursor_x to the smallest multiple of
\* 8 strictly greater than x, and leaves cursor_y and the canvas unchanged.
C24_NextTab ==
    [][(Doing("NEXT_TAB") /\ self.cursor_x >= 0) =>
          /\ self'.cursor_x % TabStop = 0
          /\ self'.cursor_x > self.cursor_x
          /\ self'.cursor_x - TabStop <= self.cursor_x
          /\ self'.cursor_y = self.cursor_y
          /\ self'.canvas = self.canvas]_vars

\* Two NextTab in a row: from the tab stop 8 the cursor went to 16.
C24_Witness ==
    /\ prev.tag = "NEXT_TAB"
    /\ last.tag = "NEXT_TAB"
    /\ self.cursor_x = 2 * TabStop

(***************************************************************************)
(* Further properties of the AsciinemaPlayer (specification SpecAsciinema).*)
(***************************************************************************)
\* The frames of the next n ticks of a player in state s on file f: the canvas
\* each tick returns, and whether the tick raised instead.
RECURSIVE FramesFrom(_, _, _, _)
FramesFrom(s, f, max_delay, n) ==
    IF n = 0 THEN <<>>
    ELSE LET m == AsciinemaRenderNow(Machine([s EXCEPT !.writes = <<>>], f, <<>>),
                                     max_delay)
         IN <<[canvas |-> m.s.canvas, error |-> m.err]>>
            \o FramesFrom(m.s, m.f, max_delay, n - 1)

\* C25: a reset() returns the player to its as-constructed state (cursor,
\* saved cursor, colours, hidden cursor, clock 0, next-event time 0, no
\* buffered payload, file at its start, cleared canvas), so the frames of the
\* ticks after the reset are those of the same ticks after construction.
C25_ResetIsAsConstructed ==
    (last.tag = "reset" /\ ~last.error) =>
        LET c == AsciinemaConstruct(file.lines)
        IN /\ Before = c.s
           /\ file.pos = c.f.pos
           /\ file.pos = 0
           /\ ~file.closed
           /\ FramesFrom(self, file, cfg.max_delay, MaxTicks)
                = FramesFrom(c.s, c.f, cfg.max_delay, MaxTicks)

\* A reset after two ticks that had shown something; the ticks to come change
\* the cleared canvas again.
C25_Witness ==
    /\ last.tag = "reset"
    /\ ~last.error
    /\ prev.tag = "tick"
    /\ out.frames >= 2
    /\ self.counter = 0
    /\ AllCells(self.canvas, BlankCell(DefaultColours))
    /\ LET frames == FramesFrom(self, file, cfg.max_delay, MaxTicks)
       IN /\ ~frames[MaxTicks].error
          /\ frames[MaxTicks].canvas # self.canvas

\* C26: a RestoreCursor with no SaveCursor before it leaves the cursor at a
\* safe position: cursor_y is not above the viewport start, also when the
\* viewport has scrolled.
C26_RestoreWithoutSave ==
    (last.tag = "RESTORE_CURSOR" /\ SavedAt(out.log) = <<>>) =>
        self.cursor_y >= self.canvas.start_line

(***************************************************************************)
(* Specification SpecAnsiPlay: an AnsiArtPlayer that its caller only       *)
(* ticks, again and again (no reset, no exit).                             *)
(***************************************************************************)
AnsiPlayNext == AnsiTick

\* A tick is taken: in this specification the steps that count one more call
\* of _render_now are exactly the AnsiTick steps, and one is possible
\* whenever the player is ready and the caller has calls left.
TickTaken == pc = "ready" /\ steps < MaxTicks /\ steps' = steps + 1

\* The caller keeps ticking.
SpecAnsiPlay == AnsiInit /\ [][AnsiPlayNext]_vars /\ WF_steps(TickTaken)

\* Every line of the file can be decoded.
Decodable == \A i \in 1..Len(file.lines) : file.lines[i].kind = "text"

\* The source lines 1..n in file order.
LinesUpTo(n) == [i \in 1..n |-> i]

\* C27: under repeated ticks every line of a finite source is eventually fed
\* to the Screen Player, and at every moment the lines fed so far are the
\* first lines of the file, each once and in file order, whatever strip is
\* and also with blank lines in the file.
C27_EveryLineFedOnce ==
    /\ [](Decodable => out.fed = LinesUpTo(Len(out.fed)))
    /\ <>(Decodable => out.fed = LinesUpTo(Len(file.lines)))

\* A file with a blank line in the middle, read with strip and rate 2: all
\* three lines have been fed.
C27_Witness ==
    /\ cfg.strip
    /\ cfg.rate = MaxRate
    /\ Len(file.lines) = MaxLines
    /\ Decodable
    /\ file.lines[2] = TextLine(<<NL>>)
    /\ out.fed = LinesUpTo(MaxLines)

\* C28 as stated: after every command and every newline the cursor row lies
\* inside the visible window.
C28_RowInsideWindow ==
    last.tag # "NONE" => InView(self.canvas, self.cursor_y)

\* C28, amended: a newline or a command other than MoveRelative, MoveAbsolute
\* and RestoreCursor leaves the cursor row inside the visible window if it
\* was inside before; a MoveRelative leaves it at or below the window start.
C28_RowStaysInsideWindow ==
    [][/\ (last'.tag \notin {"MOVE_RELATIVE", "MOVE_ABSOLUTE", "RESTORE_CURSOR"}
            /\ InView(self.canvas, self.cursor_y))
          => InView(self'.canvas, self'.cursor_y)
       /\ Doing("MOVE_RELATIVE")
          => self'.cursor_y >= self'.canvas.start_line]_vars

\* A newline from the last row of a window that had already scrolled: the
\* window scrolled again and the cursor is on its last row.
C28_Witness ==
    /\ last.tag = "NL"
    /\ prev.tag = "NL"
    /\ self.canvas.start_line > 1
    /\ self.cursor_y = self.canvas.start_line + self.canvas.height - 1

(***************************************************************************)
(* DropdownList.  The widget is w = [options, line, value, on_change]:     *)
(* options is the list of the options' values (the labels play no part),   *)
(* line and value are None or Some(x), line a 0-based index, and on_change *)
(* tells whether a callback was given.  A setter returns [w, seen]: the    *)
(* widget, and what each invocation of the callback found in it.           *)
(***************************************************************************)
MaxOptions == 3
MaxAssignments == 3

\* __init__(options, on_change=...)
DropdownInit(options, on_change) ==
    LET line == IF Len(options) > 0 THEN Some(0) ELSE NoneVal
    IN [options |-> options,
        line |-> line,
        value |-> IF ~IsNone(line) THEN Some(options[line[1] + 1]) ELSE NoneVal,
        on_change |-> on_change]

\* The indices i (0-based) of the options whose value equals v.
Matches(options, v) ==
    {i \in 0..(Len(options) - 1) : Some(options[i + 1]) = v}

\* The first index the for loop of the value setter stops at.
FirstMatch(options, v) ==
    CHOOSE i \in Matches(options, v) : \A j \in Matches(options, v) : i <= j

\* What the callback finds when it is invoked.
Seen(w) == [value |-> w.value, line |-> w.line]

\* A value setter that compares the old value with the value asked for.
ValueSetter_CompareRequested(w, new_value) ==
    LET w1 == IF Matches(w.options, new_value) # {}
              THEN [w EXCEPT !.value = new_value,
                             !.line = Some(FirstMatch(w.options, new_value))]
              ELSE [w EXCEPT !.value = NoneVal, !.line = NoneVal]
    IN [w |-> w1,
        seen |-> IF w.value # new_value /\ w.on_change THEN <<Seen(w1)>> ELSE <<>>]

\* The value setter.
ValueSetter(w, new_value) ==
    LET w1 == IF Matches(w.options, new_value) # {}
              THEN [w EXCEPT !.value = new_value,
                             !.line = Some(FirstMatch(w.options, new_value))]
              ELSE [w EXCEPT !.value = NoneVal, !.line = NoneVal]
    IN [w |-> w1,
        seen |-> IF w.value # w1.value /\ w.on_change THEN <<Seen(w1)>> ELSE <<>>]

\* An options setter that does not look the value up again.
OptionsSetter_NoLookup(w, new_value) ==
    [w |-> [w EXCEPT !.options = new_value], seen |-> <<>>]

\* The options setter: the new list, then self.value = self._value.
OptionsSetter(w, new_value) ==
    ValueSetter([w EXCEPT !.options = new_value], w.value)

\* An _on_close that hands the list's value over even when cancelled.
PopupOnClose_IgnoreCancelled(w, cancelled, list_value) ==
    ValueSetter(w, list_value)

\* _DropdownPopup._on_close(cancelled) with the pop-up list's value.
PopupOnClose(w, cancelled, list_value) ==
    IF ~cancelled THEN ValueSetter(w, list_value) ELSE [w |-> w, seen |-> <<>>]

(***************************************************************************)
(* Specification SpecDropdown: a DropdownList constructed on a list of at  *)
(* most MaxOptions options (values may repeat), with or without an         *)
(* on_change callback, then assigned to MaxAssignments times: its value,   *)
(* its options, or the value of a pop-up that closes.  out.seen is the log *)
(* of what the callback found at each of its invocations.                  *)
(***************************************************************************)
OptionValues == {1, 2}

\* A value that no option has.
AbsentValue == 3

OptionLists == UNION {[1..n -> OptionValues] : n \in 0..MaxOptions}

AssignedValues == {NoneVal} \cup {Some(v) : v \in OptionValues \cup {AbsentValue}}

DropdownCfg == [kind |-> "dropdown", strip |-> FALSE, rate |-> 0, max_delay |-> 0]

DropdownStart ==
    /\ \E options \in OptionLists : \E on_change \in BOOLEAN :
          self = DropdownInit(options, on_change)
    /\ file = NoFile
    /\ cfg = DropdownCfg
    /\ pc = "ready"
    /\ out = [seen |-> <<>>]
    /\ last = NoOp
    /\ prev = NoOp
    /\ steps = 0

\* One assignment, which ends as r = [w, seen].
Assign(item, r) ==
    /\ steps < MaxAssignments
    /\ self' = r.w
    /\ out' = [out EXCEPT !.seen = @ \o r.seen]
    /\ last' = item
    /\ prev' = last
    /\ steps' = steps + 1
    /\ UNCHANGED <<file, cfg, pc>>

\* widget.value = v
SetValue ==
    \E v \in AssignedValues :
        Assign([tag |-> "set_value", v |-> v], ValueSetter(self, v))

\* widget.options = options
SetOptions ==
    \E options \in OptionLists :
        Assign([tag |-> "set_options", options |-> options],
               OptionsSetter(self, options))

\* The pop-up closes; its list holds one of the widget's options, or None.
ClosePopup ==
    \E cancelled \in BOOLEAN :
        \E v \in {NoneVal} \cup {Some(self.options[i]) : i \in 1..Len(self.options)} :
            Assign([tag |-> "close_popup", cancelled |-> cancelled, v |-> v],
                   PopupOnClose(self, cancelled, v))

DropdownNext ==
    \/ SetValue
    \/ SetOptions
    \/ ClosePopup

SpecDropdown == DropdownStart /\ [][DropdownNext]_vars

\* Line and value are both None, or line is the smallest index of an option
\* whose value is the widget's value.
SelectionConsistent(w) ==
    \/ IsNone(w.line) /\ IsNone(w.value)
    \/ /\ ~IsNone(w.line)
       /\ ~IsNone(w.value)
       /\ w.line[1] \in 0..(Len(w.options) - 1)
       /\ w.options[w.line[1] + 1] = w.value[1]
       /\ \A j \in 0..(w.line[1] - 1) : w.options[j + 1] # w.value[1]

\* C29: after construction and after any assignments to value and options,
\* the selected line and the value are both None, or the line is the smallest
\* index of an option with the widget's value; assigning a value that no
\* option has sets both to None.
C29_SelectionConsistent ==
    /\ SelectionConsistent(self)
    /\ (last.tag = "set_value"
          /\ \A i \in 1..Len(self.options) : Some(self.options[i]) # last.v)
        => (IsNone(self.line) /\ IsNone(self.value))

\* The options were replaced by a list that has the widget's value twice,
\* after another value: the line is the first of the two.
C29_Witness ==
    /\ last.tag = "set_options"
    /\ Len(self.options) = 3
    /\ self.options[1] # self.options[2]
    /\ self.options[2] = self.options[3]
    /\ self.value = Some(self.options[2])
    /\ self.line = Some(1)

\* C30: an assignment to the value (directly, through the options setter, or
\* from a closing pop-up) invokes the on_change callback once if the widget's
\* value after it differs from the value before it, and not at all otherwise;
\* the callback finds the new value and the new line in the widget.
C30_OnChangeOnce ==
    [][LET new == SubSeq(out'.seen, Len(out.seen) + 1, Len(out'.seen))
       IN /\ Len(new) = IF self'.value # self.value /\ self.on_change THEN 1 ELSE 0
          /\ \A i \in 1..Len(new) : new[i] = Seen(self')]_vars

\* The pop-up closed on another option: the callback ran a second time and
\* found that option and its line.
C30_Witness ==
    /\ last.tag = "close_popup"
    /\ ~last.cancelled
    /\ Len(out.seen) = 2
    /\ out.seen[2] = Seen(self)
    /\ out.seen[1] # out.seen[2]
    /\ ~IsNone(self.line)
    /\ self.line # Some(0)

(***************************************************************************)
(* Temporary pop-ups.  p = [kind, w, line, in_scene]: the pop-up of widget *)
(* w; kind "dropdown" is a _DropdownPopup, whose list has w's options and  *)
(* the selected line `line`; kind "abstract" is a _TempPopup subclass of   *)
(* which only the contract of _on_close is known: it returns, or it raises *)
(* InvalidFields.  in_scene: the pop-up is an effect of the scene.  An     *)
(* operation on a pop-up ends as r = [p, seen, log, raised]: the pop-up,   *)
(* what the parent's on_change callback found, the calls made on the way,  *)
(* and whether an exception left the operation.                            *)
(***************************************************************************)
MaxPopupOptions == 2
MaxPopupEvents == 3

\* The keys that close a pop-up and keep its selection.
ClosingKeys == {"ctrl_M", "ctrl_J", "space"}

\* event.buttons has the DOUBLE_CLICK bit.
DoubleClick(buttons) == (buttons \div 4) % 2 = 1

KeyboardEvent(key_code) ==
    [type |-> "key", key_code |-> key_code, buttons |-> 0,
     outside |-> FALSE, row |-> NoneVal]

\* A mouse event outside the pop-up's frame, or inside it: on the row-th
\* option of the list, or on none.
MouseEvent(buttons, outside, row) ==
    [type |-> "mouse", key_code |-> "", buttons |-> buttons,
     outside |-> outside, row |-> row]

\* self._list.value
ListValue(p) ==
    IF IsNone(p.line) THEN NoneVal ELSE Some(p.w.options[p.line[1] + 1])

\* _DropdownPopup(parent): the list shows the parent's options and is set to
\* the parent's value; a list box that does not find the value selects its
\* first option.
DropdownPopupInit(w) ==
    [kind |-> "dropdown",
     w |-> w,
     line |-> IF Matches(w.options, w.value) # {}
              THEN Some(FirstMatch(w.options, w.value))
              ELSE IF Len(w.options) > 0 THEN Some(0) ELSE NoneVal,
     in_scene |-> FALSE]

\* self._on_close(cancelled) of the pop-up's class.
OnClose(p, cancelled, outcome) ==
    IF p.kind = "dropdown"
    THEN LET r == PopupOnClose(p.w, cancelled, ListValue(p))
         IN [p |-> [p EXCEPT !.w = r.w], seen |-> r.seen, raised |-> FALSE]
    ELSE [p |-> p, seen |-> <<>>, raised |-> outcome = "InvalidFields"]

\* A close that leaves the scene before it tells the parent.
Close_RemoveFirst(p, cancelled, outcome) ==
    LET r == OnClose([p EXCEPT !.in_scene = FALSE], cancelled, outcome)
    IN [p |-> r.p, seen |-> r.seen,
        log |-> <<"remove_effect", "_on_close">>, raised |-> r.raised]

\* close(cancelled)
Close(p, cancelled, outcome) ==
    LET r == OnClose(p, cancelled, outcome)
    IN IF r.raised
       THEN [p |-> r.p, seen |-> r.seen, log |-> <<"_on_close">>, raised |-> TRUE]
       ELSE [p |-> [r.p EXCEPT !.in_scene = FALSE], seen |-> r.seen,
             log |-> <<"_on_close", "remove_effect">>, raised |-> FALSE]

\* super().process_event(event) for an event the pop-up passed on: the
\* frame gives it to the list, which moves its selection on the cursor keys
\* and on a click on an option, and calls on_select (the pop-up's close) on a
\* double click on an option.
FrameProcessEvent(p, event, outcome) ==
    LET stay(q) == [p |-> q, seen |-> <<>>, log |-> <<>>, raised |-> FALSE]
        n == Len(p.w.options)
    IN IF p.kind # "dropdown" \/ IsNone(p.line) THEN stay(p)
       ELSE IF event.type = "key" /\ event.key_code = "down"
       THEN stay([p EXCEPT !.line = Some(IF @[1] + 1 < n THEN @[1] + 1 ELSE @[1])])
       ELSE IF event.type = "key" /\ event.key_code = "up"
       THEN stay([p EXCEPT !.line = Some(IF @[1] > 0 THEN @[1] - 1 ELSE 0)])
       ELSE IF event.type = "mouse" /\ event.buttons # 0 /\ ~IsNone(event.row)
       THEN LET q == [p EXCEPT !.line = event.row]
            IN IF DoubleClick(event.buttons) THEN Close(q, FALSE, outcome) ELSE stay(q)
       ELSE stay(p)

\* process_event(event), event not None.
ProcessEvent(p, event, outcome) ==
    LET closes == IF event.type = "key"
                  THEN event.key_code \in ClosingKeys \cup {"escape"}
                  ELSE event.buttons # 0 /\ event.outside
        cancelled == event.type = "key" /\ event.key_code = "escape"
    IN IF closes
       THEN [Close(p, cancelled, outcome) EXCEPT !.raised = FALSE]
       ELSE FrameProcessEvent(p, event, outcome)

(***************************************************************************)
(* Specification SpecPopup: a DropdownList on at most MaxPopupOptions      *)
(* options, set to any of them, whose pop-up is opened, receives keyboard  *)
(* and mouse events while it is in the scene, and is opened again after it *)
(* has closed; MaxPopupEvents steps in all.  out.log is the sequence of    *)
(* add_effect, _on_close and remove_effect calls, out.seen what on_change  *)
(* found, out.raised whether the last process_event raised.                *)
(***************************************************************************)
PopupStart ==
    /\ \E options \in UNION {[1..n -> OptionValues] : n \in 0..MaxPopupOptions} :
       \E on_change \in BOOLEAN :
         \E v \in {NoneVal} \cup {Some(options[i]) : i \in 1..Len(options)} :
           \E kind \in {"dropdown", "abstract"} :
              self = [kind |-> kind,
                      w |-> ValueSetter(DropdownInit(options, on_change), v).w,
                      line |-> NoneVal,
                      in_scene |-> FALSE]
    /\ file = NoFile
    /\ cfg = DropdownCfg
    /\ pc = "ready"
    /\ out = [seen |-> <<>>, log |-> <<>>, raised |-> FALSE]
    /\ last = NoOp
    /\ prev = NoOp
    /\ steps = 0

\* One step on the pop-up, which ends as r.
PopupStep(item, r) ==
    /\ steps < MaxPopupEvents
    /\ self' = r.p
    /\ out' = [seen |-> out.seen \o r.seen, log |-> out.log \o r.log, raised |-> r.raised]
    /\ last' = item
    /\ steps' = steps + 1
    /\ UNCHANGED <<file, cfg, pc, prev>>

\* DropdownList.process_event on Enter, Space or a click on the widget: the
\* pop-up is built and added to the scene.  A modal pop-up keeps events from
\* the widget while it is in the scene.
OpenPopup ==
    /\ ~self.in_scene
    /\ PopupStep([tag |-> "open", event |-> KeyboardEvent("ctrl_M"), outcome |-> "returns"],
                 [p |-> [(IF self.kind = "dropdown" THEN DropdownPopupInit(self.w) ELSE self)
                            EXCEPT !.in_scene = TRUE],
                  seen |-> <<>>, log |-> <<"add_effect">>, raised |-> FALSE])

\* The scene hands an event to the pop-up; _on_close of an abstract pop-up
\* returns or raises InvalidFields.
Deliver(event) ==
    /\ self.in_scene
    /\ \E outcome \in (IF self.kind = "dropdown" THEN {"returns"}
                                                ELSE {"returns", "InvalidFields"}) :
          PopupStep([tag |-> "process_event", event |-> event, outcome |-> outcome],
                    ProcessEvent(self, event, outcome))

\* A key: one that closes, Escape, a cursor key, a letter.
PopupKey ==
    \E key_code \in ClosingKeys \cup {"escape", "down", "up", "a"} :
        Deliver(KeyboardEvent(key_code))

\* A mouse event with no button, LEFT_CLICK or DOUBLE_CLICK.
PopupMouse ==
    \E buttons \in {0, 1, 4} :
        \/ Deliver(MouseEvent(buttons, TRUE, NoneVal))
        \/ \E row \in {NoneVal} \cup {Some(i) : i \in 0..(Len(self.w.options) - 1)} :
              Deliver(MouseEvent(buttons, FALSE, row))

PopupNext ==
    \/ OpenPopup
    \/ PopupKey
    \/ PopupMouse

SpecPopup == PopupStart /\ [][PopupNext]_vars

\* The event of the step is one that process_event closes the pop-up on and
\* keeps the selection: Enter, Ctrl-J, Space, or a button outside the frame.
Accepts(event) ==
    \/ event.type = "key" /\ event.key_code \in ClosingKeys
    \/ event.type = "mouse" /\ event.buttons # 0 /\ event.outside

Escapes(event) == event.type = "key" /\ event.key_code = "escape"

\* The event is a double click on an option of the pop-up's list.
SelectsByDoubleClick(event) ==
    /\ event.type = "mouse"
    /\ ~event.outside
    /\ DoubleClick(event.buttons)
    /\ ~IsNone(event.row)

NewCalls == SubSeq(out'.log, Len(out.log) + 1, Len(out'.log))

\* C32: when _on_close raises InvalidFields while process_event handles a
\* closing event (Enter, Ctrl-J, Space, Escape, a button outside the frame),
\* the pop-up is not removed from the scene, no exception leaves
\* process_event, and the pop-up is as it was, ready for later events; and in
\* every step that takes a pop-up out of the scene, _on_close was called
\* before remove_effect.
C32_InvalidFieldsKeepsPopup ==
    [][/\ (/\ last'.tag = "process_event"
           /\ Accepts(last'.event) \/ Escapes(last'.event)
           /\ self.kind = "abstract"
           /\ last'.outcome = "InvalidFields")
          => /\ self'.in_scene
             /\ self' = self
             /\ ~out'.raised
             /\ NewCalls = <<"_on_close">>
       /\ (self.in_scene /\ ~self'.in_scene)
          => NewCalls = <<"_on_close", "remove_effect">>
       /\ \A i \in 1..Len(NewCalls) :
             NewCalls[i] = "remove_effect" => (i > 1 /\ NewCalls[i - 1] = "_on_close")
      ]_vars

\* A pop-up refused one closing event with InvalidFields and was closed by
\* the next one.
C32_Witness ==
    /\ self.kind = "abstract"
    /\ out.log = <<"add_effect", "_on_close", "_on_close", "remove_effect">>
    /\ ~self.in_scene
    /\ ~out.raised

(***************************************************************************)
(* MultiColumnListBox.  b = [h, titles, n, line, start_line, rows]: the    *)
(* widget's height _h, whether it has a title row, the number of options,  *)
(* the selected line _line (-1 with no options), the scroll offset         *)
(* _start_line, and the rows the last update drew: pairs <<i, y>> of an    *)
(* option index and the canvas row, relative to the widget's top, it was   *)
(* printed on.                                                             *)
(***************************************************************************)
MaxListHeight == 3
MaxListOptions == 4
MaxListSteps == 4

\* A start line that never comes back up to the selected line.
StartLine_NoScrollUp(start_line, line, height) ==
    Max(0, Max(line - height + 1, start_line))

\* max(0, self._line - height + 1, min(self._start_line, self._line))
StartLine(start_line, line, height) ==
    Max(0, Max(line - height + 1, Min(start_line, line)))

\* The rows left for options: the height, less one for a title row.
OptionRows(b) == IF b.titles THEN b.h - 1 ELSE b.h

\* update(frame_no): the new start line and the options drawn; nothing but
\* the titles with no options.
ListBoxUpdate(b) ==
    LET height == OptionRows(b)
        delta_y == IF b.titles THEN 1 ELSE 0
        start == StartLine(b.start_line, b.line, height)
    IN IF b.n <= 0 THEN [b EXCEPT !.rows = {}]
       ELSE [b EXCEPT !.start_line = start,
                      !.rows = {<<i, i + delta_y - start>> :
                                   i \in {j \in 0..(b.n - 1) : start <= j /\ j < start + height}}]

\* The base list box selects a line; it either leaves the start line to the
\* next update (follows = FALSE) or brings it up to date itself, with the
\* full height.
BaseSelect(b, line, follows) ==
    [b EXCEPT !.line = line,
              !.start_line = IF follows THEN StartLine(b.start_line, line, b.h) ELSE @]

\* The lines the base list box may select among n options.
Lines(n) == IF n > 0 THEN 0..(n - 1) ELSE {-1}

ListBoxStart ==
    /\ \E h \in 1..MaxListHeight : \E titles \in BOOLEAN : \E n \in 0..MaxListOptions :
          self = [h |-> h, titles |-> titles, n |-> n,
                  line |-> IF n > 0 THEN 0 ELSE -1, start_line |-> 0, rows |-> {}]
    /\ file = NoFile
    /\ cfg = [kind |-> "listbox", strip |-> FALSE, rate |-> 0, max_delay |-> 0]
    /\ pc = "ready"
    /\ out = [updates |-> 0]
    /\ last = NoOp
    /\ prev = NoOp
    /\ steps = 0

ListBoxStep(tag, b) ==
    /\ steps < MaxListSteps
    /\ self' = b
    /\ last' = [tag |-> tag]
    /\ steps' = steps + 1
    /\ UNCHANGED <<file, cfg, pc, prev>>

\* The frame draws the widget.
ListUpdate ==
    /\ ListBoxStep("update", ListBoxUpdate(self))
    /\ out' = [out EXCEPT !.updates = @ + 1]

\* A key, a click or an assignment to value selects a line.
ListSelect ==
    /\ \E line \in Lines(self.n) : \E follows \in BOOLEAN :
          ListBoxStep("select", BaseSelect(self, line, follows))
    /\ UNCHANGED out

\* widget.options = new_value; self.value = self._value
ListSetOptions ==
    /\ \E n \in 0..MaxListOptions : \E line \in Lines(n) : \E follows \in BOOLEAN :
          ListBoxStep("set_options", BaseSelect([self EXCEPT !.n = n], line, follows))
    /\ UNCHANGED out

\* The layout gives the widget another height.
ListResize ==
    /\ \E h \in 1..MaxListHeight : ListBoxStep("resize", [self EXCEPT !.h = h])
    /\ UNCHANGED out

ListBoxNext ==
    \/ ListUpdate
    \/ ListSelect
    \/ ListSetOptions
    \/ ListResize

SpecListBox == ListBoxStart /\ [][ListBoxNext]_vars

\* C33 as stated: after every update with a non-empty option list, whatever
\* the previous scroll offset, the selected line and the height, with or
\* without a title row, 0 <= start_line <= selected line < start_line + rows
\* available for options.
C33_SelectedLineInWindow ==
    (last.tag = "update" /\ self.n > 0)
    => /\ 0 <= self.start_line
       /\ self.start_line <= self.line
       /\ self.line < self.start_line + OptionRows(self)

\* C33, amended: the same when at least one row is available for options,
\* and then the selected line is drawn, on a row of the widget below the
\* titles; with no row available (height 1 with a title row) nothing is drawn
\* and the start line is one past the selected line.
C33_SelectedLineInWindowIfRows ==
    (last.tag = "update" /\ self.n > 0)
    => IF OptionRows(self) >= 1
       THEN /\ 0 <= self.start_line
            /\ self.start_line <= self.line
            /\ self.line < self.start_line + OptionRows(self)
            /\ \E r \in self.rows : r[1] = self.line
            /\ \A r \in self.rows : (self.h - OptionRows(self)) <= r[2] /\ r[2] < self.h
       ELSE self.rows = {} /\ self.start_line = self.line + 1

\* Two updates of a list box with a title row and one row for options: one
\* scrolled down to a selected line below the window, the next, after the
\* first line was selected, scrolled back up to it.
C33_Witness ==
    /\ last.tag = "update"
    /\ out.updates = 2
    /\ self.n = MaxListOptions
    /\ self.titles
    /\ self.h = 2
    /\ self.line = 0
    /\ self.start_line = 0
    /\ self.rows = {<<0, 1>>}
    /\ steps = MaxListSteps
====
